---- MODULE Spec2Model ----
(***************************************************************************)
(* A model of social.py: generate_post and the two helpers it calls,       *)
(* get_emojis and get_hashtags.                                            *)
(*                                                                         *)
(* A Python str is a sequence of code points.  An ASCII code point is the  *)
(* one-character string, an emoji is the string naming its code point      *)
(* ("U1F60A"), so Len counts characters as Python's len does.              *)
(*                                                                         *)
(* The two pipelines (text generation, sentiment analysis) are external:   *)
(* each call either raises or returns a value drawn from a small set.      *)
(* random.sample is a choice of distinct positions of the population.      *)
(***************************************************************************)
EXTENDS Naturals, Sequences, FiniteSets, TLC

VARIABLES
    prompt,     \* generate_post's argument: the topic
    platform,   \* generate_post's argument: the platform
    pc,         \* position in generate_post
    generated,  \* what caption_generator(...) did: NotCalled, or an outcome
    sentiment,  \* what sentiment_pipeline(...) did: NotCalled, or an outcome
    emojis,     \* generate_post's local `emojis`
    calls,      \* the calls made so far, in order, with their arguments
    result,     \* what generate_post returned (NoResult until it returns)
    prev        \* the previous run, kept when generate_post is run again

vars == <<prompt, platform, pc, generated, sentiment, emojis, calls, result, prev>>

----------------------------------------------------------------------------
(* Strings *)

Chars(s) == [i \in 1..Len(s) |-> SubSeq(s, i, i)]

Whitespace == {" ", "\t", "\n"}

UpperCase == Chars("ABCDEFGHIJKLMNOPQRSTUVWXYZ")
LowerCase == Chars("abcdefghijklmnopqrstuvwxyz")

lower_char(c) ==
    IF \E i \in 1..Len(UpperCase) : UpperCase[i] = c
    THEN LowerCase[CHOOSE i \in 1..Len(UpperCase) : UpperCase[i] = c]
    ELSE c

\* str.lower()
lower(s) == [i \in 1..Len(s) |-> lower_char(s[i])]

\* str.strip(): drops the leading and the trailing whitespace
strip(s) ==
    LET keep == {i \in 1..Len(s) : s[i] \notin Whitespace}
    IN  IF keep = {} THEN <<>>
        ELSE SubSeq(s, CHOOSE i \in keep : \A j \in keep : i <= j,
                       CHOOSE i \in keep : \A j \in keep : i >= j)

\* str.split(): scans left to right; a run of whitespace ends the current
\* word, and no empty word is produced.
RECURSIVE split_from(_, _, _)
split_from(s, i, word) ==
    LET emit == IF word = <<>> THEN <<>> ELSE <<word>>
    IN  IF i > Len(s) THEN emit
        ELSE IF s[i] \in Whitespace THEN emit \o split_from(s, i + 1, <<>>)
        ELSE split_from(s, i + 1, Append(word, s[i]))

split(s) == split_from(s, 1, <<>>)

\* word.replace(" ", "")
replace_spaces(w) == SelectSeq(w, LAMBDA c : c # " ")

\* sep.join(parts)
RECURSIVE join(_, _)
join(sep, parts) ==
    IF parts = <<>> THEN <<>>
    ELSE IF Len(parts) = 1 THEN parts[1]
    ELSE parts[1] \o sep \o join(sep, Tail(parts))

\* list[:n]
Take(list, n) == SubSeq(list, 1, IF Len(list) < n THEN Len(list) ELSE n)

----------------------------------------------------------------------------
(* random.sample(population, k) *)

\* drawing with replacement, as random.choices does: positions may repeat
DrawsWithRepeats(n, k) == [1..k -> 1..n]

\* The draws random.sample can make: k distinct positions of a population
\* of n, in the order drawn.
Draws(n, k) == {d \in [1..k -> 1..n] : \A i, j \in 1..k : i # j => d[i] # d[j]}

\* The draws of the two-run specification: k consecutive positions (modulo
\* n) from any starting position.
RotationDraws(n, k) == {d \in Draws(n, k) : \A i \in 1..k : d[i] = ((d[1] + i - 2) % n) + 1}

\* The draws of a run: all of them, or the consecutive ones when two runs
\* are compared.
DrawSpace(consecutive, n, k) ==
    IF consecutive THEN RotationDraws(n, k) ELSE Draws(n, k)

\* random.sample raises ValueError when the sample is larger than the
\* population.
sample_raises(population, k) == k > Len(population)

sample(population, d) == [i \in DOMAIN d |-> population[d[i]]]

----------------------------------------------------------------------------
(* get_emojis *)

EmojiCount == 3

emoji_dict ==
    [positive |-> <<"U1F60A", "U1F31F", "U1F525", "U1F4AA", "U1F680", "U2728">>,
     negative |-> <<"U1F622", "U1F61E", "U1F494", "U1F620", "U1F613">>,
     neutral  |-> <<"U1F642", "U1F610", "U1F9D0", "U1F914", "U1F636">>]

\* a default long enough to sample from
DefaultEmojisWide == <<"U1F610", "U1F642", "U1F636">>
\* the default of emoji_dict.get(label, [...])
DefaultEmojis == <<"U1F610">>

\* the string returned by the except branch
FallbackEmojis == <<"U1F60A", "U1F60A", "U1F60A">>

\* An outcome of a call: not made, raised, or returned `value`.
NotCalled == [called |-> FALSE, raised |-> FALSE, value |-> <<>>]
Raised == [called |-> TRUE, raised |-> TRUE, value |-> <<>>]
Returned(v) == [called |-> TRUE, raised |-> FALSE, value |-> v]

\* emoji_dict.get(label, default), the label being a str
dict_get(label, default) ==
    IF \E k \in DOMAIN emoji_dict : Chars(k) = label
    THEN emoji_dict[CHOOSE k \in DOMAIN emoji_dict : Chars(k) = label]
    ELSE default

\* the list get_emojis samples from, given what sentiment_pipeline returned:
\* emoji_dict.get(sentiment_pipeline(text)[0]['label'].lower(), ["U1F610"])
emoji_population(sent) == dict_get(lower(sent.value), DefaultEmojis)

\* the draws open to get_emojis: none when random.sample is not reached or
\* raises
emoji_draws(sent, consecutive) ==
    IF sent.raised \/ sample_raises(emoji_population(sent), EmojiCount)
    THEN {<<>>}
    ELSE DrawSpace(consecutive, Len(emoji_population(sent)), EmojiCount)

\* ''.join(list of one-character strings)
concat(list) == join(<<>>, [i \in DOMAIN list |-> <<list[i]>>])

\* get_emojis without its try/except
get_emojis_unguarded(sent, d) ==
    IF sent.raised \/ sample_raises(emoji_population(sent), EmojiCount)
    THEN Raised
    ELSE Returned(concat(sample(emoji_population(sent), d)))

\* get_emojis(text), given the outcome of sentiment_pipeline(text) and the
\* draw of random.sample.  Every exception ends in the except branch.
get_emojis(sent, d) ==
    IF sent.raised \/ sample_raises(emoji_population(sent), EmojiCount)
    THEN Returned(FallbackEmojis)
    ELSE Returned(concat(sample(emoji_population(sent), d)))

----------------------------------------------------------------------------
(* get_hashtags *)

MinWordLen == 3
MaxContentTags == 5
PlatformTagCount == 2

platform_tags ==
    [Instagram |-> <<Chars("#instadaily"), Chars("#igers"), Chars("#picoftheday"),
                     Chars("#instagood"), Chars("#photooftheday")>>,
     LinkedIn  |-> <<Chars("#career"), Chars("#leadership"), Chars("#networking"),
                     Chars("#business"), Chars("#success")>>,
     Twitter   |-> <<Chars("#tweet"), Chars("#trending"), Chars("#news"),
                     Chars("#viral"), Chars("#twitter")>>]

\* the same with len(word) >= 3
content_tags_short(text) ==
    LET words == SelectSeq(split(lower(text)), LAMBDA w : Len(w) >= MinWordLen)
    IN  [i \in 1..Len(words) |-> <<"#">> \o replace_spaces(words[i])]

\* tags = ["#" + word.replace(" ", "") for word in words if len(word) > 3]
content_tags(text) ==
    LET words == SelectSeq(split(lower(text)), LAMBDA w : Len(w) > MinWordLen)
    IN  [i \in 1..Len(words) |-> <<"#">> \o replace_spaces(words[i])]

\* the draws open to get_hashtags: none when platform_tags[platform] raises
hashtag_draws(p, consecutive) ==
    IF p \notin DOMAIN platform_tags THEN {<<>>}
    ELSE DrawSpace(consecutive, Len(platform_tags[p]), PlatformTagCount)

\* list rotated left by r places
Rotate(list, r) ==
    [i \in 1..Len(list) |-> list[((i + r - 1) % Len(list)) + 1]]

\* get_hashtags with platform_tags.get(platform, []) and no sampling from it
get_hashtags_lenient(text, p, d) ==
    IF p \notin DOMAIN platform_tags
    THEN Returned(join(<<" ">>, Take(content_tags(text), MaxContentTags)))
    ELSE Returned(join(<<" ">>, Take(content_tags(text), MaxContentTags)
                                   \o sample(platform_tags[p], d)))

\* get_hashtags with the content tags put in an order that depends on the draw
get_hashtags_shuffled(text, p, d) ==
    IF p \notin DOMAIN platform_tags THEN Raised
    ELSE Returned(join(<<" ">>, Take(Rotate(content_tags(text), d[1]), MaxContentTags)
                                   \o sample(platform_tags[p], d)))

\* get_hashtags(prompt, platform), given the draw of random.sample.
\* platform_tags[platform] raises KeyError for a platform not in the table.
get_hashtags(text, p, d) ==
    IF p \notin DOMAIN platform_tags THEN Raised
    ELSE Returned(join(<<" ">>, Take(content_tags(text), MaxContentTags)
                                   \o sample(platform_tags[p], d)))

----------------------------------------------------------------------------
(* The requests and the outcomes of the external calls *)

Topics ==
    {Chars(""),
     Chars(" \t\n"),
     Chars("Morning coffee and productivity"),
     Chars("  Tea and\tCAKE \n"),
     Chars("a to the sea"),
     Chars("Breaking NEWS from tech labs this week today")}

Platforms == {"Instagram", "LinkedIn", "Twitter", "Facebook"}

\* caption_generator(...)[0]['generated_text'], or the call raises
GenOutcomes ==
    {Raised,
     Returned(Chars(" Morning coffee vibes \n")),
     Returned(Chars("Tea time"))}

\* sentiment_pipeline(text)[0]['label'], or the call raises
SentOutcomes ==
    {Raised,
     Returned(Chars("POSITIVE")),
     Returned(Chars("NEGATIVE")),
     Returned(Chars("neutral")),
     Returned(Chars("LABEL_1"))}

----------------------------------------------------------------------------
(* generate_post *)

PromptTuple == <<Chars("Please enter a keyword or theme"), <<>>, <<>>>>
\* the error tuple with the fallback emoji in it
ErrorTupleWithEmojis ==
    <<Chars("An error occurred while generating the post. Please try again."),
      FallbackEmojis, <<>>>>
ErrorTuple ==
    <<Chars("An error occurred while generating the post. Please try again."),
      <<>>, <<>>>>

NoResult == <<>>
NoRun == [ran |-> FALSE, generated |-> NotCalled, sentiment |-> NotCalled,
          result |-> NoResult]

Call(fn, args) == [fn |-> fn, args |-> args]

\* not prompt
is_blank_unstripped(text) == text = <<>>
\* not prompt.strip()
is_blank(text) == strip(text) = <<>>

\* get_emojis(caption): the text handed to the sentiment pipeline
sentiment_input_topic(topic, caption) == topic
sentiment_input(topic, caption) == caption

\* get_hashtags(prompt, platform): the text handed to the hashtag composer
hashtag_input_caption(topic, caption) == caption
hashtag_input(topic, caption) == topic

Init ==
    /\ prompt \in Topics
    /\ platform \in Platforms
    /\ pc = "start"
    /\ generated = NotCalled
    /\ sentiment = NotCalled
    /\ emojis = <<>>
    /\ calls = <<>>
    /\ result = NoResult
    /\ prev = NoRun

\* if not prompt.strip(): return "Please enter a keyword or theme", "", ""
Validate ==
    /\ pc = "start"
    /\ IF is_blank(prompt)
       THEN /\ result' = PromptTuple
            /\ pc' = "done"
       ELSE /\ result' = result
            /\ pc' = "generate"
    /\ UNCHANGED <<prompt, platform, generated, sentiment, emojis, calls, prev>>

\* the generation step with its error swallowed: the run goes on
GenerateCaptionSwallowed ==
    /\ pc = "generate"
    /\ \E g \in GenOutcomes :
        /\ generated' = g
        /\ calls' = Append(calls, Call("caption_generator", <<prompt>>))
        /\ result' = result
        /\ pc' = "emojis"
    /\ UNCHANGED <<prompt, platform, sentiment, emojis, prev>>

\* caption = caption_generator(prompt, ...)[0]['generated_text'], and the
\* except branch when the call raises
GenerateCaption ==
    /\ pc = "generate"
    /\ \E g \in GenOutcomes :
        /\ generated' = g
        /\ calls' = Append(calls, Call("caption_generator", <<prompt>>))
        /\ IF g.raised
           THEN /\ result' = ErrorTuple
                /\ pc' = "done"
           ELSE /\ result' = result
                /\ pc' = "emojis"
    /\ UNCHANGED <<prompt, platform, sentiment, emojis, prev>>

\* emojis = get_emojis(caption), and the except branch should it raise
EmojiStep(consecutive) ==
    /\ pc = "emojis"
    /\ \E s \in SentOutcomes : \E d \in emoji_draws(s, consecutive) :
        /\ sentiment' = s
        /\ calls' = Append(calls, Call("sentiment_pipeline", <<sentiment_input(prompt, generated.value)>>))
        /\ IF get_emojis(s, d).raised
           THEN /\ emojis' = emojis
                /\ result' = ErrorTuple
                /\ pc' = "done"
           ELSE /\ emojis' = get_emojis(s, d).value
                /\ result' = result
                /\ pc' = "hashtags"
    /\ UNCHANGED <<prompt, platform, generated, prev>>

\* hashtags = get_hashtags(prompt, platform); return caption.strip(), emojis,
\* hashtags; and the except branch when get_hashtags raises
HashtagStep(consecutive) ==
    /\ pc = "hashtags"
    /\ \E d \in hashtag_draws(platform, consecutive) :
        /\ calls' = Append(calls, Call("get_hashtags",
                               <<hashtag_input(prompt, generated.value), Chars(platform)>>))
        /\ result' = IF get_hashtags(hashtag_input(prompt, generated.value), platform, d).raised
                     THEN ErrorTuple
                     ELSE <<strip(generated.value), emojis,
                            get_hashtags(hashtag_input(prompt, generated.value), platform, d).value>>
        /\ pc' = "done"
    /\ UNCHANGED <<prompt, platform, generated, sentiment, emojis, prev>>

Next == Validate \/ GenerateCaption \/ EmojiStep(FALSE) \/ HashtagStep(FALSE)

Spec == Init /\ [][Next]_vars

----------------------------------------------------------------------------
(* Two runs of generate_post on the same arguments *)

PairTopics ==
    {Chars(" \t\n"),
     Chars("Morning coffee and productivity"),
     Chars("  Tea and\tCAKE \n")}

PairPlatforms == {"Instagram", "Twitter", "Facebook"}

InitPair ==
    /\ prompt \in PairTopics
    /\ platform \in PairPlatforms
    /\ pc = "start"
    /\ generated = NotCalled
    /\ sentiment = NotCalled
    /\ emojis = <<>>
    /\ calls = <<>>
    /\ result = NoResult
    /\ prev = NoRun

\* generate_btn.click fires generate_post once more, the inputs unchanged
RunAgain ==
    /\ pc = "done"
    /\ ~prev.ran
    /\ prev' = [ran |-> TRUE, generated |-> generated, sentiment |-> sentiment,
                result |-> result]
    /\ pc' = "start"
    /\ generated' = NotCalled
    /\ sentiment' = NotCalled
    /\ emojis' = <<>>
    /\ calls' = <<>>
    /\ result' = NoResult
    /\ UNCHANGED <<prompt, platform>>

NextPair ==
    \/ Validate
    \/ GenerateCaption
    \/ EmojiStep(TRUE)
    \/ HashtagStep(TRUE)
    \/ RunAgain

SpecPair == InitPair /\ [][NextPair]_vars

----------------------------------------------------------------------------
(* What the properties speak of, said without the model's operators *)

AllWhitespace(s) == \A i \in 1..Len(s) : s[i] \in {" ", "\t", "\n"}

\* t is s without its leading and trailing whitespace
IsTrimOf(t, s) ==
    /\ t = <<>> \/ (~AllWhitespace(<<t[1]>>) /\ ~AllWhitespace(<<t[Len(t)]>>))
    /\ \E a \in 0..Len(s) :
        /\ a + Len(t) <= Len(s)
        /\ SubSeq(s, a + 1, a + Len(t)) = t
        /\ AllWhitespace(SubSeq(s, 1, a))
        /\ AllWhitespace(SubSeq(s, a + Len(t) + 1, Len(s)))

\* the maximal runs of non-whitespace characters of s, as <<first, last>>
WordSpans(s) ==
    {sp \in (1..Len(s)) \X (1..Len(s)) :
        /\ sp[1] <= sp[2]
        /\ \A k \in sp[1]..sp[2] : ~AllWhitespace(<<s[k]>>)
        /\ sp[1] = 1 \/ AllWhitespace(<<s[sp[1] - 1]>>)
        /\ sp[2] = Len(s) \/ AllWhitespace(<<s[sp[2] + 1]>>)}

RECURSIVE InOrder(_)
InOrder(spans) ==
    IF spans = {} THEN <<>>
    ELSE LET first == CHOOSE x \in spans : \A y \in spans : x[1] <= y[1]
         IN  <<first>> \o InOrder(spans \ {first})

\* the content tags of each topic: "#" and the lower-cased word, for the
\* first at most 5 words longer than 3 characters, in the order of the topic
ExpectedContentTags ==
    [t \in Topics |->
        LET spans == InOrder({sp \in WordSpans(t) : sp[2] - sp[1] + 1 > 3})
            tags == [i \in 1..Len(spans) |->
                        <<"#">> \o lower(SubSeq(t, spans[i][1], spans[i][2]))]
        IN  SubSeq(tags, 1, IF Len(tags) > 5 THEN 5 ELSE Len(tags))]

RECURSIVE SpaceJoined(_)
SpaceJoined(tags) ==
    IF Len(tags) = 0 THEN <<>>
    ELSE IF Len(tags) = 1 THEN tags[1]
    ELSE SpaceJoined(SubSeq(tags, 1, Len(tags) - 1)) \o <<" ">> \o tags[Len(tags)]

\* h is the content tags of topic t followed by 2 distinct tags of platform p
IsHashtagsOf(h, t, p) ==
    \E a, b \in 1..Len(platform_tags[p]) :
        /\ a # b
        /\ h = SpaceJoined(ExpectedContentTags[t]
                           \o <<platform_tags[p][a], platform_tags[p][b]>>)

KnownPlatform == platform \in {"Instagram", "LinkedIn", "Twitter"}

PromptMessage == Chars("Please enter a keyword or theme")
ThreeSmiles == <<"U1F60A", "U1F60A", "U1F60A">>

Done == pc = "done"

----------------------------------------------------------------------------
(* C1 *)

\* C1: a topic that is empty or only whitespace, whatever the platform, gets
\* exactly ("Please enter a keyword or theme", "", ""): the run makes no call
\* to the generator, the classifier or the hashtag composer, and it ends
\* with that triple.
C1_BlankTopicGetsPrompt ==
    AllWhitespace(prompt) =>
        /\ pc \in {"start", "done"}
        /\ calls = <<>>
        /\ ~generated.called /\ ~sentiment.called
        /\ Done => result = <<PromptMessage, <<>>, <<>>>>

C1_Witness ==
    /\ Done
    /\ prompt = Chars(" \t\n")
    /\ platform = "Facebook"
    /\ result = <<PromptMessage, <<>>, <<>>>>

----------------------------------------------------------------------------
(* C2 *)

\* the list matched by the classifier's outcome: the label's list if the
\* lower-cased label is in the table
LabelMatched == \E k \in DOMAIN emoji_dict : Chars(k) = lower(sentiment.value)
MatchedList == emoji_dict[CHOOSE k \in DOMAIN emoji_dict : Chars(k) = lower(sentiment.value)]

Distinct(s) == \A i, j \in 1..Len(s) : i # j => s[i] # s[j]
Among(s, list) == \A i \in 1..Len(s) : \E j \in 1..Len(list) : s[i] = list[j]

\* C2 as written: whatever the classification did, the emoji output is 3
\* distinct characters of the matched category's list.
C2_AlwaysThreeDistinct ==
    sentiment.called =>
        /\ Len(emojis) = 3
        /\ Distinct(emojis)
        /\ LabelMatched /\ Among(emojis, MatchedList)

\* C2, amended: the emoji output always has exactly 3 characters; when the
\* classification returns a label of the emoji table they are 3 distinct
\* characters of that label's list, and otherwise (the call raised, or the
\* label is not in the table) the output is the same glyph three times.
C2_ThreeDistinctOrFallback ==
    sentiment.called =>
        /\ Len(emojis) = 3
        /\ IF ~sentiment.raised /\ LabelMatched
           THEN Distinct(emojis) /\ Among(emojis, MatchedList)
           ELSE emojis = ThreeSmiles

C2_Witness ==
    /\ Done
    /\ sentiment = Returned(Chars("NEGATIVE"))
    /\ Len(emojis) = 3 /\ Distinct(emojis)
    /\ Among(emojis, emoji_dict.negative)

----------------------------------------------------------------------------
(* C3 *)

\* C3: for a platform of the table, the hashtags returned are the content
\* tags (the first at most 5 words of the lower-cased topic longer than 3
\* characters, "#" before each, in the topic's order) and then 2 distinct
\* tags of the platform's list, joined by single spaces.
C3_HashtagsShape ==
    (Done /\ Len(calls) = 3 /\ KnownPlatform) =>
        IsHashtagsOf(result[3], prompt, platform)

C3_Witness ==
    /\ Done /\ Len(calls) = 3
    /\ prompt = Chars("Breaking NEWS from tech labs this week today")
    /\ platform = "LinkedIn"
    /\ result[3] = Chars("#breaking #news #from #tech #labs #success #career")

----------------------------------------------------------------------------
(* C4 *)

\* C4: when the generation call raises for a non-blank topic, generate_post
\* returns the generic failure message with empty emoji and hashtag fields,
\* and neither the classifier nor the hashtag composer is called.
C4_GenerationFailure ==
    generated.raised =>
        /\ Done
        /\ result = <<ErrorTuple[1], <<>>, <<>>>>
        /\ ~sentiment.called
        /\ \A i \in 1..Len(calls) : calls[i].fn = "caption_generator"

C4_Witness ==
    /\ generated.raised
    /\ ~AllWhitespace(prompt)
    /\ Done
    /\ Len(result) = 3 /\ result[2] = <<>> /\ result[3] = <<>>

----------------------------------------------------------------------------
(* C5 *)

\* C5: when the classification call raises, the emoji string is the same
\* smiling glyph three times, and with a platform of the table generate_post
\* still returns the trimmed generated caption and the composed hashtags
\* beside it.
C5_ClassifierFailureRecovered ==
    sentiment.raised =>
        /\ emojis = ThreeSmiles
        /\ (Done /\ KnownPlatform) =>
              /\ Len(result) = 3
              /\ IsTrimOf(result[1], generated.value)
              /\ result[2] = ThreeSmiles
              /\ IsHashtagsOf(result[3], prompt, platform)

C5_Witness ==
    /\ sentiment.raised
    /\ Done /\ KnownPlatform
    /\ result[1] = Chars("Morning coffee vibes")
    /\ result[2] = ThreeSmiles

----------------------------------------------------------------------------
(* C6 *)

\* C6 as written: the KeyError of get_hashtags for a platform outside the
\* table is not turned into a message tuple, so the generic error tuple is
\* returned only when caption generation raised.
C6_ErrorTupleOnlyFromGeneration ==
    (Done /\ result = <<ErrorTuple[1], <<>>, <<>>>>) => generated.raised

\* C6, amended: for a non-blank topic with a successful generation and a
\* platform outside the table, get_hashtags is called and raises, and
\* generate_post's except branch turns that into the generic error tuple;
\* generate_post returns the generic error tuple exactly when caption
\* generation raised or the platform is outside the table.
C6_UnknownPlatformGetsErrorTuple ==
    (Done /\ ~AllWhitespace(prompt)) =>
        /\ (result = <<ErrorTuple[1], <<>>, <<>>>>) <=>
              (generated.raised \/ ~KnownPlatform)
        /\ (~generated.raised /\ ~KnownPlatform) =>
              /\ Len(calls) = 3
              /\ calls[3].fn = "get_hashtags"

C6_Witness ==
    /\ Done
    /\ platform = "Facebook"
    /\ generated = Returned(Chars("Tea time"))
    /\ Len(calls) = 3
    /\ result = <<ErrorTuple[1], <<>>, <<>>>>

----------------------------------------------------------------------------
(* C7 *)

\* C7: when the classifier returns a label that is not in the emoji table,
\* the list sampled from is the single neutral glyph, too short for 3, and
\* the emoji output is exactly the same smiling glyph three times; no error
\* reaches the caller: with a platform of the table generate_post returns
\* the caption, that triple and the hashtags.
C7_UnknownLabelGetsFallback ==
    (sentiment.called /\ ~sentiment.raised /\ ~LabelMatched) =>
        /\ emoji_population(sentiment) = <<"U1F610">>
        /\ emojis = ThreeSmiles
        /\ pc \in {"hashtags", "done"}
        /\ (Done /\ KnownPlatform) =>
              /\ Len(result) = 3
              /\ result[2] = ThreeSmiles
              /\ IsTrimOf(result[1], generated.value)
              /\ result[3] # <<>>

C7_Witness ==
    /\ Done /\ KnownPlatform
    /\ sentiment = Returned(Chars("LABEL_1"))
    /\ result[2] = ThreeSmiles
    /\ result[3] # <<>>

----------------------------------------------------------------------------
(* C8 *)

\* the calls of a complete run, in order
FullCallOrder ==
    <<[fn |-> "caption_generator", args |-> <<prompt>>],
      [fn |-> "sentiment_pipeline", args |-> <<generated.value>>],
      [fn |-> "get_hashtags", args |-> <<prompt, Chars(platform)>>]>>

\* C8: for a non-blank topic the generator is called first and once, the
\* classifier only after the generator returned, on the generated caption,
\* and the hashtag composer after that, on the topic; a run whose generation
\* succeeded makes all three calls; for a blank topic no call is made.
C8_CallOrder ==
    /\ AllWhitespace(prompt) => calls = <<>>
    /\ Len(calls) <= 3
    /\ calls = SubSeq(FullCallOrder, 1, Len(calls))
    /\ Len(calls) >= 2 => (generated.called /\ ~generated.raised)
    /\ sentiment.called <=> Len(calls) >= 2
    /\ (Done /\ ~AllWhitespace(prompt)) =>
          Len(calls) = IF generated.raised THEN 1 ELSE 3

C8_Witness ==
    /\ Done
    /\ prompt = Chars("  Tea and\tCAKE \n")
    /\ generated = Returned(Chars(" Morning coffee vibes \n"))
    /\ Len(calls) = 3
    /\ calls[2].args = <<Chars(" Morning coffee vibes \n")>>
    /\ calls[3].args = <<Chars("  Tea and\tCAKE \n"), Chars("Twitter")>>

----------------------------------------------------------------------------
(* C9 *)

\* the tags of a hashtag string, and its split into the content tags and
\* the 2 platform tags that end it
TagsOf(h) ==
    LET cuts == {0, Len(h) + 1} \cup {i \in 1..Len(h) : h[i] = " "}
    IN  [n \in 1..(Cardinality(cuts) - 1) |->
            LET from == CHOOSE c \in cuts : Cardinality({x \in cuts : x < c}) = n - 1
                to   == CHOOSE c \in cuts : Cardinality({x \in cuts : x < c}) = n
            IN  SubSeq(h, from + 1, to - 1)]

ContentTagsOf(h) == IF h = <<>> THEN <<>> ELSE SubSeq(TagsOf(h), 1, Len(TagsOf(h)) - 2)
PlatformTagsOf(h) ==
    IF h = <<>> THEN <<>> ELSE SubSeq(TagsOf(h), Len(TagsOf(h)) - 1, Len(TagsOf(h)))

\* both runs have returned, and in both the generator and the classifier
\* did the same (the topic and the platform are those of the first run)
TwoRunsSameOutcomes ==
    /\ prev.ran
    /\ Done
    /\ prev.generated = generated
    /\ prev.sentiment = sentiment

----------------------------------------------------------------------------
(* C10 *)

IsPromptOutcome ==
    /\ result = <<PromptMessage, <<>>, <<>>>>
    /\ AllWhitespace(prompt)

IsFailedOutcome == result = <<ErrorTuple[1], <<>>, <<>>>>

\* the hashtag string ends in 2 tags of the platform's list
EndsInTwoPlatformTags(h, p) ==
    \E a, b \in 1..Len(platform_tags[p]) :
        LET tail == platform_tags[p][a] \o <<" ">> \o platform_tags[p][b]
        IN  /\ a # b
            /\ Len(h) >= Len(tail)
            /\ SubSeq(h, Len(h) - Len(tail) + 1, Len(h)) = tail

IsCompleteOutcome ==
    /\ generated.called /\ ~generated.raised
    /\ IsTrimOf(result[1], generated.value)
    /\ Len(result[2]) = 3
    /\ EndsInTwoPlatformTags(result[3], platform)

\* C10: with a platform of the table, whatever the generation and the
\* classification do, no error escapes generate_post: a run is at one of
\* its steps with nothing returned yet, or it has returned, and what it
\* returned is a triple that is exactly one of:
\* the prompt message with empty emoji and hashtags, the generic error
\* message with empty emoji and hashtags, or a trimmed generated caption
\* with 3 emoji characters and hashtags ending in 2 platform tags; the emoji
\* and hashtag fields are empty together or not at all.
C10_ThreeOutcomes ==
    KnownPlatform =>
        /\ ~Done => /\ result = NoResult
                    /\ pc \in {"start", "generate", "emojis", "hashtags"}
                    /\ pc = "start" \/ ~AllWhitespace(prompt)
        /\ Done =>
            /\ Len(result) = 3
            /\ \/ IsPromptOutcome /\ ~IsFailedOutcome /\ ~IsCompleteOutcome
               \/ ~IsPromptOutcome /\ IsFailedOutcome /\ ~IsCompleteOutcome
               \/ ~IsPromptOutcome /\ ~IsFailedOutcome /\ IsCompleteOutcome
            /\ (result[2] = <<>>) <=> (result[3] = <<>>)

C10_Witness ==
    /\ Done /\ KnownPlatform
    /\ IsCompleteOutcome
    /\ sentiment.raised
    /\ prompt = Chars("a to the sea")

====
